---- MODULE Spec2Model ----
(***************************************************************************)
(* The cache-aside layer of altares-mayand (src/lib/redis/client.ts), its  *)
(* key scheme and TTL classes (src/lib/redis/cache-keys.ts), and the quote *)
(* computation the keys of generatePriceCalcHash stand for.                *)
(*                                                                         *)
(* Strings are sequences of one-character strings, so that template        *)
(* literals, join, glob patterns and localeCompare are computed on text.   *)
(* Money is in centavos (DECIMAL(10,2) scaled by 100).                     *)
(***************************************************************************)
EXTENDS Integers, Sequences, FiniteSets, TLC

(***************************************************************************)
(* Bounds of the model                                                     *)
(***************************************************************************)
\* data-store versions: 0 = the row does not exist, n >= 1 = its n-th content
MaxVersion == 2
\* seconds that pass in one step of the clock
TickSeconds == 1800
\* longest extras list of a price-calculation request
MaxExtras == 2
\* largest cantidad of one extra
MaxCantidad == 2
\* largest quantity of a request
MaxQuantity == 2
\* most items on the other lines of the request's order
MaxOtherItems == 4

\* the rows of a reglas_precio table the resolver is tried on
MaxRules == 2

\* the rows of a reglas_descuento table the discount is tried on
MaxTiers == 2

\* the orders placed
MaxPedidos == 1

\* the orders stored with a generated numero_pedido
MaxNumeros == 2

\* the greatest value pedidos_seq is followed to
MaxSeq == 10010

(***************************************************************************)
(* Text helpers                                                            *)
(***************************************************************************)
\* collation order of the characters identifiers are built from
\* (punctuation before digits before letters)
CharOrder ==
    <<"_", "-", ",", ":", "0", "1", "2", "3", "4", "5", "6", "7", "8", "9",
      "a", "b", "c", "d", "e", "f", "g", "h", "i", "j", "k", "l", "m", "n",
      "o", "p", "q", "r", "s", "t", "u", "v", "w", "x", "y", "z">>

CharRank(c) == CHOOSE i \in 1..Len(CharOrder) : CharOrder[i] = c

RECURSIVE LocaleCompare(_, _)
\* a.localeCompare(b): negative, zero or positive
LocaleCompare(a, b) ==
    IF a = <<>> /\ b = <<>> THEN 0
    ELSE IF a = <<>> THEN -1
    ELSE IF b = <<>> THEN 1
    ELSE IF CharRank(Head(a)) < CharRank(Head(b)) THEN -1
    ELSE IF CharRank(Head(a)) > CharRank(Head(b)) THEN 1
    ELSE LocaleCompare(Tail(a), Tail(b))

Digits == <<"0", "1", "2", "3", "4", "5", "6", "7", "8", "9">>

RECURSIVE NumberToString(_)
\* `${n}` of a non-negative integer
NumberToString(n) ==
    IF n < 10 THEN <<Digits[n + 1]>>
    ELSE NumberToString(n \div 10) \o <<Digits[(n % 10) + 1]>>

RECURSIVE Join(_, _)
\* Array.prototype.join
Join(parts, sep) ==
    IF parts = <<>> THEN <<>>
    ELSE IF Len(parts) = 1 THEN parts[1]
    ELSE parts[1] \o sep \o Join(Tail(parts), sep)

RECURSIVE GlobMatch(_, _)
\* the glob of redis.keys(pattern): '*' stands for any run of characters
GlobMatch(pattern, str) ==
    IF pattern = <<>> THEN str = <<>>
    ELSE IF Head(pattern) = "*"
         THEN \/ GlobMatch(Tail(pattern), str)
              \/ str # <<>> /\ GlobMatch(pattern, Tail(str))
    ELSE /\ str # <<>>
         /\ Head(str) = Head(pattern)
         /\ GlobMatch(Tail(pattern), Tail(str))

(***************************************************************************)
(* generatePriceCalcHash (cache-keys.ts)                                   *)
(***************************************************************************)
RECURSIVE InsertSorted(_, _)
\* insert e behind every element that does not compare greater than it
InsertSorted(sorted, e) ==
    IF sorted = <<>> THEN <<e>>
    ELSE IF LocaleCompare(Head(sorted).itemId, e.itemId) <= 0
         THEN <<Head(sorted)>> \o InsertSorted(Tail(sorted), e)
    ELSE <<e>> \o sorted

RECURSIVE SortExtras(_)
\* extras.sort((a, b) => a.itemId.localeCompare(b.itemId)): a stable sort on
\* itemId alone
SortExtras(extras) ==
    IF extras = <<>> THEN <<>>
    ELSE InsertSorted(SortExtras(SubSeq(extras, 1, Len(extras) - 1)),
                      extras[Len(extras)])

\* `${e.itemId}:${e.cantidad}`
ExtraToString(e) == e.itemId \o <<":">> \o NumberToString(e.cantidad)

\* params.extras.sort(...).map(...).join(','), '' without extras
ExtrasStr(extras) ==
    LET sorted == SortExtras(extras)
    IN  Join([i \in 1..Len(sorted) |-> ExtraToString(sorted[i])], <<",">>)

\* the string generatePriceCalcHash returns for params
generatePriceCalcHash(params) ==
    params.grosorId \o <<"-">> \o params.alturaId \o <<"-">> \o params.anchuraId
        \o <<"-">> \o (IF params.pintado THEN <<"1">> ELSE <<"0">>)
        \o <<"-">> \o ExtrasStr(params.extras)

(***************************************************************************)
(* CACHE_KEYS and CACHE_TTL (cache-keys.ts)                                *)
(***************************************************************************)
ALTARES_ALL ==
    <<"a", "l", "t", "a", "r", "e", "s", ":", "a", "l", "l">>

ALTARES_BY_TYPE(tipo) ==
    <<"a", "l", "t", "a", "r", "e", "s", ":", "t", "i", "p", "o", ":">> \o tipo

ALTAR_DETAIL(id) ==
    <<"a", "l", "t", "a", "r", ":">> \o id

ALTAR_BY_SLUG(slug) ==
    <<"a", "l", "t", "a", "r", ":", "s", "l", "u", "g", ":">> \o slug

CONFIGURACIONES_ALL ==
    <<"c", "o", "n", "f", "i", "g", "u", "r", "a", "c", "i", "o", "n", "e", "s",
      ":", "a", "l", "l">>

REGLAS_PRECIO ==
    <<"r", "e", "g", "l", "a", "s", "_", "p", "r", "e", "c", "i", "o", ":",
      "a", "l", "l">>

PRECIO_CALCULATION(hash) ==
    <<"p", "r", "e", "c", "i", "o", ":", "c", "a", "l", "c", ":">> \o hash

ITEMS_EXTRA ==
    <<"i", "t", "e", "m", "s", "_", "e", "x", "t", "r", "a", ":", "a", "l", "l">>

ITEMS_EXTRA_BY_TYPE(tipo) ==
    <<"i", "t", "e", "m", "s", "_", "e", "x", "t", "r", "a", ":", "t", "i", "p",
      "o", ":">> \o tipo

REGLAS_DESCUENTO ==
    <<"r", "e", "g", "l", "a", "s", "_", "d", "e", "s", "c", "u", "e", "n", "t",
      "o", ":", "a", "l", "l">>

ALL_ALTARES ==
    <<"a", "l", "t", "a", "r", "e", "s", ":", "*">>

ALL_CONFIGURACIONES ==
    <<"c", "o", "n", "f", "i", "g", "u", "r", "a", "c", "i", "o", "n", "e", "s",
      ":", "*">>

ALL_PRICING ==
    <<"p", "r", "e", "c", "i", "o", ":", "*">>

ALL_EXTRAS ==
    <<"i", "t", "e", "m", "s", "_", "e", "x", "t", "r", "a", ":", "*">>

\* CACHE_KEYS.PATTERNS, in the order of the object's properties
PATTERNS == <<ALL_ALTARES, ALL_CONFIGURACIONES, ALL_PRICING, ALL_EXTRAS>>

CACHE_TTL_LONG == 3600
CACHE_TTL_MEDIUM == 1800
CACHE_TTL_SHORT == 300
CACHE_TTL_VERY_SHORT == 60
CACHE_TTL_CATALOG == 3600
CACHE_TTL_CONFIG == 3600
CACHE_TTL_PRICING == 1800
CACHE_TTL_CALCULATION == 600
CACHE_TTL_EXTRAS == 3600
CACHE_TTL_DISCOUNTS == 3600
\* the default of the ttl parameter of getCached and setCache
DEFAULT_TTL == 3600

(***************************************************************************)
(* The seeded catalog and rules (supabase/migrations) and the quote        *)
(* computation of the pricing core                                         *)
(***************************************************************************)
\* configuraciones rows a request can name: id -> tipo, valor, disponible
Configuraciones ==
    {[id |-> <<"g", "3">>, tipo |-> "grosor", valor |-> 3, disponible |-> TRUE],
     [id |-> <<"g", "5">>, tipo |-> "grosor", valor |-> 5, disponible |-> TRUE],
     [id |-> <<"h", "4", "0">>, tipo |-> "altura", valor |-> 40, disponible |-> TRUE],
     [id |-> <<"h", "6", "0">>, tipo |-> "altura", valor |-> 60, disponible |-> TRUE],
     [id |-> <<"w", "2", "5">>, tipo |-> "anchura", valor |-> 25, disponible |-> TRUE]}

GrosorIds == {c.id : c \in {o \in Configuraciones : o.tipo = "grosor"}}

AlturaIds == {c.id : c \in {o \in Configuraciones : o.tipo = "altura"}}

AnchuraIds == {c.id : c \in {o \in Configuraciones : o.tipo = "anchura"}}

\* the row of an option in the configuraciones table opts
Option(opts, id) == CHOOSE o \in opts : o.id = id

Rule(id, grosorId, hMin, hMax, wMin, wMax, base, pintado) ==
    [id |-> id, grosorId |-> grosorId, altura_min |-> hMin, altura_max |-> hMax,
     anchura_min |-> wMin, anchura_max |-> wMax, precio_base |-> base,
     precio_pintado |-> pintado, activo |-> TRUE]

\* mutant: a seed whose small 3mm band has the base price painted too
ReglasPrecio_PaintedAtBase ==
    <<Rule(<<"r", "0", "1">>, <<"g", "3">>, 30, 50, 20, 35, 25000, 25000),
      Rule(<<"r", "0", "4">>, <<"g", "5">>, 30, 50, 20, 35, 30000, 42000),
      Rule(<<"r", "0", "6">>, <<"g", "5">>, 60, 80, 20, 50, 48000, 67200)>>

\* the seeded reglas_precio, in the order of the INSERT
ReglasPrecio ==
    <<Rule(<<"r", "0", "1">>, <<"g", "3">>, 30, 50, 20, 35, 25000, 35000),
      Rule(<<"r", "0", "2">>, <<"g", "3">>, 30, 50, 40, 50, 30000, 42000),
      Rule(<<"r", "0", "3">>, <<"g", "3">>, 60, 80, 20, 50, 40000, 56000),
      Rule(<<"r", "0", "4">>, <<"g", "5">>, 30, 50, 20, 35, 30000, 42000),
      Rule(<<"r", "0", "5">>, <<"g", "5">>, 30, 50, 40, 50, 36000, 50400),
      Rule(<<"r", "0", "6">>, <<"g", "5">>, 60, 80, 20, 50, 48000, 67200),
      Rule(<<"r", "0", "7">>, <<"g", "6">>, 30, 50, 20, 35, 35000, 49000),
      Rule(<<"r", "0", "8">>, <<"g", "6">>, 30, 50, 40, 50, 42000, 58800),
      Rule(<<"r", "0", "9">>, <<"g", "6">>, 60, 80, 20, 50, 56000, 78400),
      Rule(<<"r", "1", "0">>, <<"g", "9">>, 30, 50, 20, 35, 45000, 63000),
      Rule(<<"r", "1", "1">>, <<"g", "9">>, 30, 50, 40, 50, 54000, 75600),
      Rule(<<"r", "1", "2">>, <<"g", "9">>, 60, 80, 20, 50, 72000, 100800)>>

\* mutant: a seed with the tier for 5 or more altars only
ReglasDescuento_BulkOrderOnly ==
    {[cantidad_minima |-> 5, porcentaje_descuento |-> 1000, activo |-> TRUE]}

\* the seeded reglas_descuento; the percentage in hundredths of a percent
ReglasDescuento ==
    {[cantidad_minima |-> 5, porcentaje_descuento |-> 1000, activo |-> TRUE],
     [cantidad_minima |-> 10, porcentaje_descuento |-> 1500, activo |-> TRUE]}

\* seeded items_extra a request can name: Portaretrato Adicional and
\* Calavera Decorativa
ItemsExtra ==
    {[id |-> <<"e", "1">>, precio |-> 5000, disponible |-> TRUE],
     [id |-> <<"e", "2">>, precio |-> 4000, disponible |-> TRUE]}

ExtraIds == {e.id : e \in ItemsExtra}

ExtraPrice(id) == (CHOOSE e \in ItemsExtra : e.id = id).precio

\* the tables as the migrations leave them; no order has been placed
SeededTables ==
    [configuraciones |-> Configuraciones, reglas_precio |-> ReglasPrecio,
     reglas_descuento |-> ReglasDescuento, pedidos |-> {}]

\* mutant: the bands without their bounds
Matches_Exclusive(r, thicknessId, height, width) ==
    /\ r.activo
    /\ r.grosorId = thicknessId
    /\ r.altura_min < height /\ height < r.altura_max
    /\ r.anchura_min < width /\ width < r.anchura_max

\* the rule is active, of the thickness, and its bands contain the point
Matches(r, thicknessId, height, width) ==
    /\ r.activo
    /\ r.grosorId = thicknessId
    /\ r.altura_min <= height /\ height <= r.altura_max
    /\ r.anchura_min <= width /\ width <= r.anchura_max

BandArea(r) == (r.altura_max - r.altura_min) * (r.anchura_max - r.anchura_min)

\* mutant: among bands of equal area the rule met first stays
Narrowest_FirstWins(a, b) == IF BandArea(a) <= BandArea(b) THEN a ELSE b

\* of two matching rules, the one with the narrower band; the one with the
\* smaller identifier among equals
Narrowest(a, b) ==
    IF BandArea(a) < BandArea(b) THEN a
    ELSE IF BandArea(b) < BandArea(a) THEN b
    ELSE IF LocaleCompare(a.id, b.id) <= 0 THEN a ELSE b

RECURSIVE resolve(_, _, _, _)
\* resolve over the rules as the repository supplies them: the narrowest of
\* the matching rules; {} when no rule matches
resolve(rules, thicknessId, height, width) ==
    IF rules = <<>> THEN {}
    ELSE LET rest == resolve(Tail(rules), thicknessId, height, width)
         IN  IF ~Matches(Head(rules), thicknessId, height, width) THEN rest
             ELSE IF rest = {} THEN {Head(rules)}
             ELSE {Narrowest(Head(rules), CHOOSE q \in rest : TRUE)}

\* subtotal * percentage / 100, rounded half up to the centavo; the product
\* is taken in two parts, which keeps it within the integers of the checker
RoundedPercentage(subtotal, hundredths) ==
    (subtotal \div 10000) * hundredths
        + ((subtotal % 10000) * hundredths + 5000) \div 10000

\* tier = null
NoTier == [cantidad_minima |-> 0, porcentaje_descuento |-> 0, activo |-> FALSE]

\* the active tiers whose cantidad_minima is not above itemCount
QualifyingTiers(tiers, itemCount) ==
    {t \in tiers : t.activo /\ t.cantidad_minima <= itemCount}

\* applyDiscount: the qualifying tier with the largest cantidad_minima and
\* its rounded share of the subtotal; no tier and no discount without one.
\* The results it may give: one for each tier that has the largest threshold
applyDiscount(tiers, itemCount, subtotal) ==
    LET T == QualifyingTiers(tiers, itemCount)
        best == {t \in T : \A u \in T : u.cantidad_minima <= t.cantidad_minima}
    IN  IF best = {} THEN {[tier |-> NoTier, discountAmount |-> 0]}
        ELSE {[tier |-> t,
               discountAmount |-> RoundedPercentage(subtotal, t.porcentaje_descuento)] :
                    t \in best}

RECURSIVE ExtrasTotal(_)
\* the extras' prices times their quantities, summed
ExtrasTotal(extras) ==
    IF extras = <<>> THEN 0
    ELSE ExtraPrice(Head(extras).itemId) * Head(extras).cantidad
            + ExtrasTotal(Tail(extras))

QuoteError(err) ==
    [kind |-> "error", err |-> err, unitPrice |-> 0, extrasTotal |-> 0,
     lineSubtotal |-> 0, discountAmount |-> 0, total |-> 0, matchedRuleId |-> <<>>]

\* mutant: no validation of the quantity and the options
IsValidRequest_Unchecked(opts, req) == TRUE

\* quantity >= 1 and every option the request names is available
IsValidRequest(opts, req) ==
    /\ req.quantity >= 1
    /\ \A id \in {req.params.grosorId, req.params.alturaId, req.params.anchuraId} :
            Option(opts, id).disponible

\* computeQuote for a request [params, quantity, orderItemCount] over the
\* tables tbl
computeQuote(tbl, req) ==
    LET p == req.params
        opts == tbl.configuraciones
        rules == resolve(tbl.reglas_precio, p.grosorId,
                         Option(opts, p.alturaId).valor, Option(opts, p.anchuraId).valor)
    IN  IF ~IsValidRequest(opts, req) THEN QuoteError("InvalidConfigurationError")
        ELSE IF rules = {} THEN QuoteError("NoRuleMatchedError")
        ELSE LET rule == CHOOSE r \in rules : TRUE
                 unitPrice == IF p.pintado THEN rule.precio_pintado ELSE rule.precio_base
                 extrasTotal == ExtrasTotal(p.extras)
                 lineSubtotal == (unitPrice + extrasTotal) * req.quantity
                 discount == CHOOSE d \in applyDiscount(tbl.reglas_descuento,
                                                        req.orderItemCount, lineSubtotal) : TRUE
             IN  [kind |-> "quote", err |-> "none", unitPrice |-> unitPrice,
                  extrasTotal |-> extrasTotal, lineSubtotal |-> lineSubtotal,
                  discountAmount |-> discount.discountAmount,
                  total |-> lineSubtotal - discount.discountAmount,
                  matchedRuleId |-> rule.id]

\* the extras lists and the requests the calculation is tried on
ExtraPairs == [itemId : ExtraIds, cantidad : 1..MaxCantidad]

ExtrasLists == UNION {[1..n -> ExtraPairs] : n \in 0..MaxExtras}

CalcParams ==
    [grosorId : GrosorIds, alturaId : AlturaIds, anchuraId : AnchuraIds,
     pintado : BOOLEAN, extras : ExtrasLists]

\* the order's item count is the line's quantity plus the other lines'
CalcRequests ==
    {[params |-> p, quantity |-> q, orderItemCount |-> q + o] :
        p \in CalcParams, q \in 1..MaxQuantity, o \in 0..MaxOtherItems}

(***************************************************************************)
(* Requests whose identifiers hold the separators of the hash              *)
(***************************************************************************)
\* parameters with identifiers that contain '-', ':' and ','
SeparatorParams ==
    [grosorId : {<<"a">>, <<"a", "-", "b">>},
     alturaId : {<<"c">>, <<"b", "-", "c">>},
     anchuraId : {<<"w">>},
     pintado : BOOLEAN,
     extras : UNION {[1..n -> [itemId : {<<"e", "1">>, <<"e", "2">>,
                                         <<"e", "1", ":", "1", ",", "e", "2">>},
                               cantidad : {2}]
                              \cup {[itemId |-> <<"e", "1">>, cantidad |-> 1]}] :
                        n \in 0..MaxExtras}]

(***************************************************************************)
(* The tables the resolver is tried on                                     *)
(***************************************************************************)
\* identifiers whose order as text is not their order as numbers
RuleIds == {<<"r", "1", "0">>, <<"r", "2">>, <<"r", "3">>}

\* altura_min, altura_max, anchura_min, anchura_max: two bands of equal area
\* that overlap, and a wider one that holds both
Bands == {<<30, 50, 20, 35>>, <<40, 60, 20, 35>>, <<30, 60, 20, 50>>}

\* rows the constraints of reglas_precio admit
RuleUniverse ==
    {[Rule(id, g, b[1], b[2], b[3], b[4], 25000, 35000) EXCEPT !.activo = a] :
        id \in RuleIds, g \in GrosorIds, b \in Bands, a \in BOOLEAN}

\* the seeded table, and every table of at most MaxRules rows with a primary
\* key, in every storage order
RuleTables ==
    {ReglasPrecio} \cup
    {t \in UNION {[1..n -> RuleUniverse] : n \in 0..MaxRules} :
        \A i, j \in DOMAIN t : i # j => t[i].id # t[j].id}

\* the points resolve is asked for: inside bands, on a bound, in a gap
ResolvePoints ==
    [thicknessId : {<<"g", "3">>}, height : {45, 50, 55, 65}, width : {25, 40}]

(***************************************************************************)
(* The whole seeded catalog of options                                     *)
(***************************************************************************)
\* the configuraciones rows of one tipo, one for each valor
OptionRows(tipo, prefix, valores) ==
    {[id |-> <<prefix>> \o NumberToString(v), tipo |-> tipo, valor |-> v,
      disponible |-> TRUE] : v \in valores}

\* mutant: a seed that also offers a height of 55 cm
SeededConfiguraciones_Height55 ==
    OptionRows("grosor", "g", {3, 5, 6, 9})
        \cup OptionRows("altura", "h", {30, 40, 50, 55, 60, 70, 80})
        \cup OptionRows("anchura", "w", {20, 25, 30, 35, 40, 45, 50})

\* every seeded configuraciones row
SeededConfiguraciones ==
    OptionRows("grosor", "g", {3, 5, 6, 9})
        \cup OptionRows("altura", "h", {30, 40, 50, 60, 70, 80})
        \cup OptionRows("anchura", "w", {20, 25, 30, 35, 40, 45, 50})

(***************************************************************************)
(* The tables the discount and the quote are tried on                      *)
(***************************************************************************)
\* rows the constraints of reglas_descuento admit: cantidad_minima > 0 and
\* a percentage from 0 to 100, here 0%, 3.33%, 10%, 15% and 100%
TierUniverse ==
    [cantidad_minima : {1, 5, 10},
     porcentaje_descuento : {0, 333, 1000, 1500, 10000},
     activo : BOOLEAN]

RECURSIVE TierTablesOf(_)
\* the tables of at most n rows
TierTablesOf(n) ==
    IF n = 0 THEN {{}}
    ELSE TierTablesOf(n - 1) \cup
         {T \cup {t} : T \in TierTablesOf(n - 1), t \in TierUniverse}

TierTables == TierTablesOf(MaxTiers)

\* the calls of applyDiscount: item counts below, between and above the
\* thresholds; subtotals in centavos
DiscountInputs == [itemCount : {4, 6, 12}, subtotal : {0, 1, 33333, 150000}]

\* the table opts with the option id withdrawn
Withdrawn(opts, id) ==
    {IF o.id = id THEN [o EXCEPT !.disponible = FALSE] ELSE o : o \in opts}

\* the table rules with its row i deactivated
Deactivated(rules, i) == [rules EXCEPT ![i].activo = FALSE]

\* the tables a quote is computed from: the seeded ones, an option withdrawn,
\* a rule deactivated, the tiers replaced
QuoteTables ==
    {[SeededTables EXCEPT !.configuraciones = opts, !.reglas_precio = rules,
                          !.reglas_descuento = tiers] :
        opts \in {Configuraciones, Withdrawn(Configuraciones, <<"g", "3">>),
                  Withdrawn(Configuraciones, <<"h", "4", "0">>)},
        rules \in {ReglasPrecio, Deactivated(ReglasPrecio, 1)},
        tiers \in {ReglasDescuento} \cup
                  {{[t EXCEPT !.activo = TRUE]} :
                        t \in {u \in TierUniverse : u.cantidad_minima = 5}}}

\* the requests a quote is computed for
QuoteRequests ==
    {[params |-> p, quantity |-> q, orderItemCount |-> n] :
        p \in [grosorId : GrosorIds, alturaId : AlturaIds, anchuraId : AnchuraIds,
               pintado : BOOLEAN,
               extras : {<<>>, <<[itemId |-> <<"e", "1">>, cantidad |-> 1]>>}],
        q \in {0, 1, 5},
        n \in {1, 6, 12}}

(***************************************************************************)
(* State                                                                   *)
(***************************************************************************)
VARIABLES
    cache,   \* the Redis store: key -> entry
    db,      \* the data store's version the fetchers read
    call,    \* per request: the getCached call in progress
    inv,     \* the admin's mutation and the invalidateCache calls after it
    calc,    \* a price-calculation request, its hash, key and quote
    tables,  \* the pricing tables and the orders of the data store
    rsv,     \* a resolve call: the point and the matched rule
    dsc,     \* an applyDiscount call: item count, subtotal and result
    helper,  \* a caller's setCache or deleteCache call and how it ended
    perr,    \* an error handed to the error handler and what came back
    nums,    \* pedidos_seq, the day, and the numero_pedido of the stored orders
    rls,     \* the rows behind row level security and a session's SELECT
    home     \* a request for the Home page and how it ended

vars ==
    <<cache, db, call, inv, calc, tables, rsv, dsc, helper, perr, nums, rls,
      home>>

\* the concurrent requests
Procs == {"r1", "r2"}

\* null, which redis.get returns for an absent key and a fetcher for a
\* missing row
NullVal == 0

Values == 0..MaxVersion

\* what the fetcher resolves to while the store is at version v
FetcherValue(v) == v

\* the request whose quote the model caches
SampleParams ==
    [grosorId |-> <<"g", "3">>, alturaId |-> <<"h", "4", "0">>,
     anchuraId |-> <<"w", "2", "5">>, pintado |-> FALSE, extras |-> <<>>]

SampleQuoteKey == PRECIO_CALCULATION(generatePriceCalcHash(SampleParams))

\* the key of the same request, painted
PaintedQuoteKey ==
    PRECIO_CALCULATION(generatePriceCalcHash([SampleParams EXCEPT !.pintado = TRUE]))

\* the key getCached, setCache and deleteCache are called with
CallKeys == {SampleQuoteKey}

\* the keys of every namespace of CACHE_KEYS
AllKeys ==
    {ALTARES_ALL, ALTARES_BY_TYPE(<<"m", "a", "s", "c", "o", "t", "a", "s">>),
     ALTAR_DETAIL(<<"i", "d", "1">>), ALTAR_BY_SLUG(<<"s", "1">>),
     CONFIGURACIONES_ALL, REGLAS_PRECIO, SampleQuoteKey, PaintedQuoteKey,
     ITEMS_EXTRA,
     ITEMS_EXTRA_BY_TYPE(<<"v", "a", "s", "o">>), REGLAS_DESCUENTO}

\* the ttl arguments of the calls
TtlInputs == {0, CACHE_TTL_CALCULATION, CACHE_TTL_CATALOG}

NoEntry == [present |-> FALSE, val |-> NullVal, ttl |-> 0, age |-> 0]

NoResult == [kind |-> "none", val |-> NullVal, err |-> "none"]

ValueResult(v) == [kind |-> "value", val |-> v, err |-> "none"]

\* the rejection of the fetcher's promise
FetchError == [kind |-> "error", val |-> NullVal, err |-> "fetcher"]

\* the rejection of a Redis call
CacheError == [kind |-> "error", val |-> NullVal, err |-> "cache"]

IdleCall ==
    [pc |-> "idle", def |-> 1, key |-> <<>>, ttl |-> 0, cached |-> NullVal,
     data |-> NullVal, getOut |-> "none", setOut |-> "none",
     fetched |-> <<>>, result |-> NoResult]

IdleInv ==
    [pc |-> "idle", todo |-> <<>>, pattern |-> <<>>, keys |-> {},
     healthy |-> TRUE, swept |-> FALSE, out |-> "none"]

IdleHelper == [pc |-> "idle", op |-> "none", threw |-> FALSE, out |-> "none"]

IdleResolve ==
    [pc |-> "idle", thicknessId |-> <<"g", "3">>, height |-> 40, width |-> 25,
     out |-> {}]

IdleDiscount ==
    [pc |-> "idle", itemCount |-> 1, subtotal |-> 0,
     out |-> [tier |-> NoTier, discountAmount |-> 0]]

IdleCalc ==
    [pc |-> "idle", params |-> SampleParams, quantity |-> 1,
     orderItemCount |-> 1, hash |-> <<>>, key |-> <<>>, quote |-> QuoteError("none")]

(***************************************************************************)
(* parseError, getUserFriendlyMessage, createErrorResponse                 *)
(* (utils/error-handler.ts)                                                *)
(***************************************************************************)
\* what a catch block can hand over: an Error instance (own properties code
\* and statusCode at will), a string, a plain object, or anything else
\* (kind "other": null, undefined, a number).  A property that is absent is
\* the empty set; code is a string and statusCode a number, as in AppError,
\* on which String() and Number() change nothing
ThrownValues ==
    {e \in [kind : {"Error", "string", "object", "other"},
            message : {{}, {""}, {"boom"}},
            code : {{}, {"23505"}, {"TIMEOUT"}, {"E42"}},
            statusCode : {{}, {404}, {503}}] :
        /\ e.kind = "Error" => e.message # {}
        /\ e.kind = "string" => e.message # {} /\ e.code = {} /\ e.statusCode = {}
        /\ e.kind = "other" => e.message = {} /\ e.code = {} /\ e.statusCode = {}}

\* the one element of a property that is present
The(prop) == CHOOSE v \in prop : TRUE

\* parseError(error): the branches in the order of the code
parseError(error) ==
    IF error.kind = "Error"
    THEN [message |-> The(error.message), code |-> "ERROR", statusCode |-> 500]
    ELSE IF error.kind = "string"
    THEN [message |-> The(error.message), code |-> "ERROR", statusCode |-> 500]
    ELSE IF error.kind = "object" /\ error.message # {}
    THEN [message |-> The(error.message),
          code |-> IF error.code # {} THEN The(error.code) ELSE "ERROR",
          statusCode |-> IF error.statusCode # {} THEN The(error.statusCode)
                         ELSE 500]
    ELSE [message |-> "Un error desconocido ocurrió", code |-> "UNKNOWN_ERROR",
          statusCode |-> 500]

\* messageMap of getUserFriendlyMessage
MessageMap ==
    [c \in {"PGRST301", "23505", "23503", "23502", "42501", "NETWORK_ERROR",
            "TIMEOUT"} |->
        CASE c = "PGRST301" -> "No se encontró el recurso solicitado"
          [] c = "23505" -> "Este registro ya existe"
          [] c = "23503" -> "No se puede eliminar porque está en uso"
          [] c = "23502" -> "Faltan campos requeridos"
          [] c = "42501" -> "No tienes permisos para realizar esta acción"
          [] c = "NETWORK_ERROR" -> "Error de conexión. Por favor verifica tu internet"
          [] c = "TIMEOUT" -> "La operación tardó demasiado. Por favor intenta de nuevo"]

\* getUserFriendlyMessage(error)
getUserFriendlyMessage(error) ==
    LET parsed == parseError(error)
    IN  IF parsed.code # "" /\ parsed.code \in DOMAIN MessageMap
        THEN MessageMap[parsed.code]
        ELSE IF parsed.message # "" THEN parsed.message
        ELSE "Ocurrió un error inesperado"

\* createErrorResponse(error, statusCode): the status and the error of the
\* body; statusCode is the empty set when the argument is left out
createErrorResponse(error, statusCode) ==
    LET parsed == parseError(error)
    IN  [status |-> IF statusCode # {} /\ The(statusCode) # 0 THEN The(statusCode)
                    ELSE IF parsed.statusCode # 0 THEN parsed.statusCode
                    ELSE 500,
         message |-> getUserFriendlyMessage(error),
         code |-> parsed.code]

IdleParse ==
    [pc |-> "idle", op |-> "none",
     error |-> [kind |-> "other", message |-> {}, code |-> {}, statusCode |-> {}],
     parsed |-> [message |-> "", code |-> "", statusCode |-> 0],
     response |-> [status |-> 0, message |-> "", code |-> ""]]

(***************************************************************************)
(* generate_numero_pedido and the trigger set_numero_pedido                *)
(* (initial_schema.sql)                                                    *)
(***************************************************************************)
\* lpad(text, length, fill): the text filled on the left up to length, and
\* cut on the right down to length when it is longer
LPad(text, length, fill) ==
    IF Len(text) >= length THEN SubSeq(text, 1, length)
    ELSE [i \in 1..(length - Len(text)) |-> fill] \o text

\* 'ALT-' || TO_CHAR(now(), 'YYYYMMDD') || '-' || LPAD(NEXTVAL(...)::TEXT, 4, '0');
\* the day is the number its YYYYMMDD digits spell
generate_numero_pedido(day, nextval) ==
    <<"A", "L", "T", "-">> \o NumberToString(day) \o <<"-">>
        \o LPad(NumberToString(nextval), 4, "0")

\* the days orders are placed on
Days == {20250121, 20250122}

\* CREATE SEQUENCE pedidos_seq START 1, not yet called; no order stored
NoOrders ==
    [seq |-> 0, day |-> 20250121, numeros |-> {}, generated |-> <<>>,
     rejected |-> FALSE]

(***************************************************************************)
(* Row level security (initial_schema.sql, RLS policies)                   *)
(***************************************************************************)
\* the policies: the table, the command, and the expression of USING (of
\* WITH CHECK for the INSERT policy).  "flag" is activo = true or
\* disponible = true, the column the table has; "own" is auth.uid() = id
Policies ==
    {[table |-> "altares", cmd |-> "SELECT", expr |-> "flag"],
     [table |-> "configuraciones", cmd |-> "SELECT", expr |-> "flag"],
     [table |-> "reglas_precio", cmd |-> "SELECT", expr |-> "flag"],
     [table |-> "items_extra", cmd |-> "SELECT", expr |-> "flag"],
     [table |-> "reglas_descuento", cmd |-> "SELECT", expr |-> "flag"],
     [table |-> "altares", cmd |-> "ALL", expr |-> "is_admin"],
     [table |-> "configuraciones", cmd |-> "ALL", expr |-> "is_admin"],
     [table |-> "reglas_precio", cmd |-> "ALL", expr |-> "is_admin"],
     [table |-> "items_extra", cmd |-> "ALL", expr |-> "is_admin"],
     [table |-> "reglas_descuento", cmd |-> "ALL", expr |-> "is_admin"],
     [table |-> "pedidos", cmd |-> "SELECT", expr |-> "is_admin"],
     [table |-> "pedidos", cmd |-> "UPDATE", expr |-> "is_admin"],
     [table |-> "admin_usuarios", cmd |-> "SELECT", expr |-> "is_admin"],
     [table |-> "admin_usuarios", cmd |-> "UPDATE", expr |-> "own"],
     [table |-> "pedidos", cmd |-> "INSERT", expr |-> "true"]}

\* is_admin(): a row of admin_usuarios with the session's auth.uid() and
\* activo = true.  SECURITY DEFINER, so the table's own policies do not apply
is_admin(rows, uid) ==
    \E r \in rows["admin_usuarios"] : r.id = uid /\ r.flag

\* the expression of the policy on the row, for the session of uid
PolicyHolds(pol, rows, row, uid) ==
    CASE pol.expr = "flag" -> row.flag
      [] pol.expr = "is_admin" -> is_admin(rows, uid)
      [] pol.expr = "own" -> uid = row.id
      [] pol.expr = "true" -> TRUE

\* mutant: every policy is taken for every command
Applies_AnyCommand(pol, cmd) == TRUE

\* FOR cmd, and FOR ALL
Applies(pol, cmd) == pol.cmd = cmd \/ pol.cmd = "ALL"

\* the rows of the table that a command of the session may touch: those on
\* which one of the table's policies for the command holds
Permitted(rows, uid, table, cmd) ==
    {row \in rows[table] :
        \E pol \in Policies :
            /\ pol.table = table
            /\ Applies(pol, cmd)
            /\ PolicyHolds(pol, rows, row, uid)}

\* one row of each seeded table, an order that was placed and two registered
\* admins; no session has queried
SeededRows ==
    [rows |-> [t \in {p.table : p \in Policies} |->
                    IF t = "admin_usuarios"
                    THEN {[id |-> "a1", flag |-> TRUE], [id |-> "a2", flag |-> TRUE]}
                    ELSE {[id |-> "x1", flag |-> TRUE]}],
     session |-> [pc |-> "idle", uid |-> "anon", table |-> "altares",
                  admin |-> FALSE, result |-> {}]]

\* no request for the page; altares is the list handed to CatalogClient, {}
\* the empty list, and error the text that makes the notice appear
IdleHome ==
    [pc |-> "idle", def |-> "part_008", rejected |-> FALSE, altares |-> {},
     error |-> ""]

(***************************************************************************)
(* The Redis commands the client issues                                    *)
(***************************************************************************)
\* redis.get(key): the stored value, null for an absent key
RedisGet(key) == IF cache[key].present THEN cache[key].val ELSE NullVal

\* redis.setex(key, ttl, value) is carried out when the call gets through and
\* the expire time is positive (Redis rejects any other)
SetexSucceeds(ttl, ok) == ok /\ ttl > 0

\* mutant: redis.set in place of redis.setex, an entry without expiry
RedisSetex_NoExpiry(key, ttl, value) ==
    [cache EXCEPT ![key] = [present |-> TRUE, val |-> value, ttl |-> 0, age |-> 0]]

\* the store after a successful redis.setex(key, ttl, value)
RedisSetex(key, ttl, value) ==
    [cache EXCEPT ![key] = [present |-> TRUE, val |-> value, ttl |-> ttl, age |-> 0]]

\* redis.keys(pattern)
RedisKeys(pattern) == {k \in AllKeys : cache[k].present /\ GlobMatch(pattern, k)}

\* the store after a successful redis.del(...keys)
RedisDel(keys) == [k \in AllKeys |-> IF k \in keys THEN NoEntry ELSE cache[k]]

\* TickSeconds pass: entries age, and Redis drops those whose TTL has elapsed
Tick ==
    /\ \E k \in AllKeys : cache[k].present
    /\ cache' = [k \in AllKeys |->
                    IF ~cache[k].present THEN cache[k]
                    ELSE IF cache[k].age + TickSeconds >= cache[k].ttl THEN NoEntry
                    ELSE [cache[k] EXCEPT !.age = @ + TickSeconds]]
    /\ UNCHANGED <<db, call, inv, calc, tables, rsv, dsc, helper, perr, nums, rls, home>>

(***************************************************************************)
(* getCached (client.ts, both definitions)                                 *)
(***************************************************************************)
\* mutant: cached !== undefined, which takes null for a hit
IsCacheHit_Undefined(cached) == TRUE

\* cached !== null
IsCacheHit(cached) == cached # NullVal

\* where control goes when redis.setex rejects: definition 1 catches it next
\* to the call and returns data, definition 2 lets it reach the outer catch
AfterSetexFailure(def) == IF def = 1 THEN "return" ELSE "fallback"

\* a request calls getCached(key, fetcher, ttl) of definition def
GetCachedBegin(p, def, key, ttl) ==
    /\ call[p].pc = "idle"
    /\ call' = [call EXCEPT ![p] =
                    [IdleCall EXCEPT !.pc = "get", !.def = def, !.key = key,
                                     !.ttl = ttl]]
    /\ UNCHANGED <<cache, db, inv, calc, tables, rsv, dsc, helper, perr, nums, rls, home>>

\* mutant: no outer catch, the rejection of redis.get reaches the caller
GetCachedGet_Rethrow(p, ok) ==
    /\ call[p].pc = "get"
    /\ LET cached == RedisGet(call[p].key)
       IN  call' = [call EXCEPT ![p] =
                IF ~ok THEN [@ EXCEPT !.getOut = "err", !.result = CacheError,
                                      !.pc = "done"]
                ELSE IF IsCacheHit(cached)
                     THEN [@ EXCEPT !.getOut = "hit", !.cached = cached,
                                    !.result = ValueResult(cached), !.pc = "done"]
                ELSE [@ EXCEPT !.getOut = "miss", !.cached = cached,
                               !.pc = "fetch"]]
    /\ UNCHANGED <<cache, db, inv, calc, tables, rsv, dsc, helper, perr, nums, rls, home>>

\* mutant: the hit branch lacks its return and goes on to fetch and cache
GetCachedGet_NoReturn(p, ok) ==
    /\ call[p].pc = "get"
    /\ LET cached == RedisGet(call[p].key)
       IN  call' = [call EXCEPT ![p] =
                IF ~ok THEN [@ EXCEPT !.getOut = "err", !.pc = "fallback"]
                ELSE IF IsCacheHit(cached)
                     THEN [@ EXCEPT !.getOut = "hit", !.cached = cached,
                                    !.pc = "fetch"]
                ELSE [@ EXCEPT !.getOut = "miss", !.cached = cached,
                               !.pc = "fetch"]]
    /\ UNCHANGED <<cache, db, inv, calc, tables, rsv, dsc, helper, perr, nums, rls, home>>

\* await redis.get(key), and the test of its result
GetCachedGet(p, ok) ==
    /\ call[p].pc = "get"
    /\ LET cached == RedisGet(call[p].key)
       IN  call' = [call EXCEPT ![p] =
                IF ~ok THEN [@ EXCEPT !.getOut = "err", !.pc = "fallback"]
                ELSE IF IsCacheHit(cached)
                     THEN [@ EXCEPT !.getOut = "hit", !.cached = cached,
                                    !.result = ValueResult(cached), !.pc = "done"]
                ELSE [@ EXCEPT !.getOut = "miss", !.cached = cached,
                               !.pc = "fetch"]]
    /\ UNCHANGED <<cache, db, inv, calc, tables, rsv, dsc, helper, perr, nums, rls, home>>

\* const data = await fetcher(), inside the try
GetCachedFetch(p, ok) ==
    /\ call[p].pc = "fetch"
    /\ call' = [call EXCEPT ![p] =
            IF ok
            THEN [@ EXCEPT !.data = FetcherValue(db),
                           !.fetched = Append(@, ValueResult(FetcherValue(db))),
                           !.pc = "setex"]
            ELSE [@ EXCEPT !.fetched = Append(@, FetchError),
                           !.pc = "fallback"]]
    /\ UNCHANGED <<cache, db, inv, calc, tables, rsv, dsc, helper, perr, nums, rls, home>>

\* await redis.setex(key, ttl, data), and return data
GetCachedSetex(p, ok) ==
    /\ call[p].pc = "setex"
    /\ IF SetexSucceeds(call[p].ttl, ok)
       THEN /\ cache' = RedisSetex(call[p].key, call[p].ttl, call[p].data)
            /\ call' = [call EXCEPT ![p] =
                    [@ EXCEPT !.setOut = "ok", !.result = ValueResult(call[p].data),
                              !.pc = "done"]]
       ELSE /\ cache' = cache
            /\ call' = [call EXCEPT ![p] =
                    IF AfterSetexFailure(call[p].def) = "return"
                    THEN [@ EXCEPT !.setOut = "err",
                                   !.result = ValueResult(call[p].data), !.pc = "done"]
                    ELSE [@ EXCEPT !.setOut = "err", !.pc = "fallback"]]
    /\ UNCHANGED <<db, inv, calc, tables, rsv, dsc, helper, perr, nums, rls, home>>

\* the outer catch: return await fetcher()
GetCachedFallback(p, ok) ==
    /\ call[p].pc = "fallback"
    /\ call' = [call EXCEPT ![p] =
            IF ok
            THEN [@ EXCEPT !.fetched = Append(@, ValueResult(FetcherValue(db))),
                           !.result = ValueResult(FetcherValue(db)),
                           !.pc = "done"]
            ELSE [@ EXCEPT !.fetched = Append(@, FetchError),
                           !.result = FetchError, !.pc = "done"]]
    /\ UNCHANGED <<cache, db, inv, calc, tables, rsv, dsc, helper, perr, nums, rls, home>>

\* the caller takes the result
GetCachedReturn(p) ==
    /\ call[p].pc = "done"
    /\ call' = [call EXCEPT ![p] = IdleCall]
    /\ UNCHANGED <<cache, db, inv, calc, tables, rsv, dsc, helper, perr, nums, rls, home>>

(***************************************************************************)
(* setCache, deleteCache, invalidateCache (client.ts)                      *)
(***************************************************************************)
\* mutant: the catch block rethrows what it caught
Caught_Rethrow(threw) == IF threw THEN "rejected" ELSE "resolved"

\* try { ... } catch (error) { console.error(...) }: the helper's promise
\* resolves whether or not a Redis call inside it threw
Caught(threw) == "resolved"

\* setCache(key, value, ttl): one setex; a rejected setex is caught and logged
\* and leaves the cache as it was, which is no step
SetCache(key, value, ttl, ok) ==
    /\ cache' = IF SetexSucceeds(ttl, ok) THEN RedisSetex(key, ttl, value) ELSE cache
    /\ cache' # cache
    /\ UNCHANGED <<db, call, inv, calc, tables, rsv, dsc, helper, perr, nums, rls, home>>

\* deleteCache(key): one del; a rejected del is caught and logged and leaves
\* the cache as it was, which is no step
DeleteCache(key, ok) ==
    /\ cache[key].present
    /\ ok
    /\ cache' = RedisDel({key})
    /\ UNCHANGED <<db, call, inv, calc, tables, rsv, dsc, helper, perr, nums, rls, home>>

\* a caller awaits setCache(key, value, ttl) and keeps how the call ended
SetCacheCall(key, value, ttl, ok) ==
    /\ helper.pc = "idle"
    /\ cache' = IF SetexSucceeds(ttl, ok) THEN RedisSetex(key, ttl, value) ELSE cache
    /\ helper' = [pc |-> "done", op |-> "setCache",
                  threw |-> ~SetexSucceeds(ttl, ok),
                  out |-> Caught(~SetexSucceeds(ttl, ok))]
    /\ UNCHANGED <<db, call, inv, calc, tables, rsv, dsc, perr, nums, rls, home>>

\* a caller awaits deleteCache(key) and keeps how the call ended
DeleteCacheCall(key, ok) ==
    /\ helper.pc = "idle"
    /\ cache' = IF ok THEN RedisDel({key}) ELSE cache
    /\ helper' = [pc |-> "done", op |-> "deleteCache", threw |-> ~ok,
                  out |-> Caught(~ok)]
    /\ UNCHANGED <<db, call, inv, calc, tables, rsv, dsc, perr, nums, rls, home>>

\* the caller goes on after the helper's promise has settled
HelperReturn ==
    /\ helper.pc = "done"
    /\ helper' = IdleHelper
    /\ UNCHANGED <<cache, db, call, inv, calc, tables, rsv, dsc, perr, nums, rls, home>>

\* an admin changes a rule; the patterns of CACHE_KEYS.PATTERNS are then
\* invalidated one after the other
AdminMutate ==
    /\ inv.pc = "idle"
    /\ inv.todo = <<>>
    /\ db < MaxVersion
    /\ db' = db + 1
    /\ inv' = [IdleInv EXCEPT !.todo = PATTERNS]
    /\ UNCHANGED <<cache, call, calc, tables, rsv, dsc, helper, perr, nums, rls, home>>

\* invalidateCache(pattern) is called
InvalidateCacheBegin ==
    /\ inv.pc = "idle"
    /\ inv.todo # <<>>
    /\ inv' = [inv EXCEPT !.pc = "keys", !.pattern = Head(inv.todo),
                          !.todo = Tail(inv.todo)]
    /\ UNCHANGED <<cache, db, call, calc, tables, rsv, dsc, helper, perr, nums, rls, home>>

\* const keys = await redis.keys(pattern); if (keys.length > 0) ...
InvalidateCacheKeys(ok) ==
    /\ inv.pc = "keys"
    /\ inv' = IF ok
              THEN IF RedisKeys(inv.pattern) # {}
                   THEN [inv EXCEPT !.keys = RedisKeys(inv.pattern), !.pc = "del"]
                   ELSE [inv EXCEPT !.keys = {}, !.pc = "done", !.out = Caught(FALSE)]
              ELSE [inv EXCEPT !.healthy = FALSE, !.pc = "done", !.out = Caught(TRUE)]
    /\ UNCHANGED <<cache, db, call, calc, tables, rsv, dsc, helper, perr, nums, rls, home>>

\* await redis.del(...keys)
InvalidateCacheDel(ok) ==
    /\ inv.pc = "del"
    /\ cache' = IF ok THEN RedisDel(inv.keys) ELSE cache
    /\ inv' = IF ok THEN [inv EXCEPT !.pc = "done", !.out = Caught(FALSE)]
              ELSE [inv EXCEPT !.healthy = FALSE, !.pc = "done", !.out = Caught(TRUE)]
    /\ UNCHANGED <<db, call, calc, tables, rsv, dsc, helper, perr, nums, rls, home>>

\* invalidateCache returns (it never rejects)
InvalidateCacheReturn ==
    /\ inv.pc = "done"
    /\ inv' = [inv EXCEPT !.pc = "idle", !.pattern = <<>>, !.keys = {},
                          !.swept = (inv.todo = <<>>), !.out = "none"]
    /\ UNCHANGED <<cache, db, call, calc, tables, rsv, dsc, helper, perr, nums, rls, home>>

(***************************************************************************)
(* One request against the shared cache: what other clients do to the      *)
(* cache reaches it as setCache and deleteCache calls, expiry and the      *)
(* admin's invalidations                                                   *)
(***************************************************************************)
Init ==
    /\ cache = [k \in AllKeys |-> NoEntry]
    /\ db \in {0, 1}
    /\ call = [p \in Procs |-> IdleCall]
    /\ inv = IdleInv
    /\ calc = IdleCalc
    /\ tables = SeededTables
    /\ rsv = IdleResolve
    /\ dsc = IdleDiscount
    /\ helper = IdleHelper
    /\ perr = IdleParse
    /\ nums = NoOrders
    /\ rls = SeededRows
    /\ home = IdleHome

Next ==
    \/ \E def \in {1, 2}, key \in CallKeys, ttl \in TtlInputs :
            GetCachedBegin("r1", def, key, ttl)
    \/ \E ok \in BOOLEAN : GetCachedGet("r1", ok)
    \/ \E ok \in BOOLEAN : GetCachedFetch("r1", ok)
    \/ \E ok \in BOOLEAN : GetCachedSetex("r1", ok)
    \/ \E ok \in BOOLEAN : GetCachedFallback("r1", ok)
    \/ GetCachedReturn("r1")
    \/ \E key \in CallKeys, value \in Values, ttl \in TtlInputs, ok \in BOOLEAN :
            SetCache(key, value, ttl, ok)
    \/ \E key \in CallKeys, ok \in BOOLEAN : DeleteCache(key, ok)
    \/ AdminMutate
    \/ InvalidateCacheBegin
    \/ \E ok \in BOOLEAN : InvalidateCacheKeys(ok)
    \/ \E ok \in BOOLEAN : InvalidateCacheDel(ok)
    \/ InvalidateCacheReturn
    \/ Tick

Spec == Init /\ [][Next]_vars

(***************************************************************************)
(* Concurrent getCached calls for one key against an unchanging, reachable *)
(* data store; every cache call may fail                                   *)
(***************************************************************************)
\* the steps of the getCached call of request p
GetCachedStep(p) ==
    \/ \E ok \in BOOLEAN : GetCachedGet(p, ok)
    \/ GetCachedFetch(p, TRUE)
    \/ \E ok \in BOOLEAN : GetCachedSetex(p, ok)
    \/ GetCachedFallback(p, TRUE)
    \/ GetCachedReturn(p)

ConcurrentNext ==
    \/ \E p \in Procs, def \in {1, 2}, ttl \in {CACHE_TTL_CALCULATION, CACHE_TTL_CATALOG} :
            GetCachedBegin(p, def, SampleQuoteKey, ttl)
    \/ \E p \in Procs : GetCachedStep(p)
    \/ Tick

\* every awaited promise settles, so a call that has begun takes its next step
ConcurrentSpec ==
    Init /\ [][ConcurrentNext]_vars /\ \A p \in Procs : WF_vars(GetCachedStep(p))

(***************************************************************************)
(* The admin's invalidation of a cache that holds any of the keys          *)
(***************************************************************************)
InvalInit ==
    /\ cache \in [AllKeys -> {NoEntry,
                     [present |-> TRUE, val |-> 1, ttl |-> DEFAULT_TTL, age |-> 0]}]
    /\ db \in {0, 1}
    /\ call = [p \in Procs |-> IdleCall]
    /\ inv = IdleInv
    /\ calc = IdleCalc
    /\ tables = SeededTables
    /\ rsv = IdleResolve
    /\ dsc = IdleDiscount
    /\ helper = IdleHelper
    /\ perr = IdleParse
    /\ nums = NoOrders
    /\ rls = SeededRows
    /\ home = IdleHome

InvalNext ==
    \/ AdminMutate
    \/ InvalidateCacheBegin
    \/ \E ok \in BOOLEAN : InvalidateCacheKeys(ok)
    \/ \E ok \in BOOLEAN : InvalidateCacheDel(ok)
    \/ InvalidateCacheReturn

InvalSpec == InvalInit /\ [][InvalNext]_vars

(***************************************************************************)
(* The admin's invalidation while other clients cache quotes               *)
(***************************************************************************)
RaceNext ==
    \/ \E key \in {SampleQuoteKey, PaintedQuoteKey}, value \in Values,
          ttl \in TtlInputs, ok \in BOOLEAN :
            SetCache(key, value, ttl, ok)
    \/ InvalNext
    \/ Tick

RaceSpec == Init /\ [][RaceNext]_vars

(***************************************************************************)
(* A caller's setCache and deleteCache calls and the admin's invalidations, *)
(* every Redis call free to fail                                           *)
(***************************************************************************)
HelperNext ==
    \/ \E key \in CallKeys, value \in Values, ttl \in TtlInputs, ok \in BOOLEAN :
            SetCacheCall(key, value, ttl, ok)
    \/ \E key \in CallKeys, ok \in BOOLEAN : DeleteCacheCall(key, ok)
    \/ HelperReturn
    \/ InvalNext

HelperSpec == Init /\ [][HelperNext]_vars

(***************************************************************************)
(* A price calculation: the request is hashed to its cache key, then quoted *)
(***************************************************************************)
\* generatePriceCalcHash(params): Array.prototype.sort sorts params.extras in
\* place; the key is CACHE_KEYS.PRECIO_CALCULATION(hash)
CalcHash ==
    /\ calc.pc = "idle"
    /\ calc' = [calc EXCEPT !.pc = "hashed",
                            !.hash = generatePriceCalcHash(calc.params),
                            !.key = PRECIO_CALCULATION(generatePriceCalcHash(calc.params)),
                            !.params.extras = SortExtras(@)]
    /\ UNCHANGED <<cache, db, call, inv, tables, rsv, dsc, helper, perr, nums, rls, home>>

\* the quote of the request
CalcQuote ==
    /\ calc.pc = "hashed"
    /\ calc' = [calc EXCEPT !.pc = "done",
                            !.quote = computeQuote(tables,
                                                   [params |-> calc.params,
                                                    quantity |-> calc.quantity,
                                                    orderItemCount |-> calc.orderItemCount])]
    /\ UNCHANGED <<cache, db, call, inv, tables, rsv, dsc, helper, perr, nums, rls, home>>

HashInit ==
    /\ cache = [k \in AllKeys |-> NoEntry]
    /\ db = 1
    /\ call = [p \in Procs |-> IdleCall]
    /\ inv = IdleInv
    /\ calc \in {[IdleCalc EXCEPT !.params = r.params, !.quantity = r.quantity,
                                  !.orderItemCount = r.orderItemCount] :
                    r \in CalcRequests}
    /\ tables = SeededTables
    /\ rsv = IdleResolve
    /\ dsc = IdleDiscount
    /\ helper = IdleHelper
    /\ perr = IdleParse
    /\ nums = NoOrders
    /\ rls = SeededRows
    /\ home = IdleHome

HashNext == CalcHash \/ CalcQuote

HashSpec == HashInit /\ [][HashNext]_vars

(***************************************************************************)
(* The resolver over any rule table and point                              *)
(***************************************************************************)
\* resolve(thicknessRef, height, width) over the rules of the repository
Resolve ==
    /\ rsv.pc = "idle"
    /\ rsv' = [rsv EXCEPT !.pc = "done",
                          !.out = resolve(tables.reglas_precio, rsv.thicknessId,
                                          rsv.height, rsv.width)]
    /\ UNCHANGED <<cache, db, call, inv, calc, tables, dsc, helper, perr, nums, rls, home>>

ResolveInit ==
    /\ cache = [k \in AllKeys |-> NoEntry]
    /\ db = 1
    /\ call = [p \in Procs |-> IdleCall]
    /\ inv = IdleInv
    /\ calc = IdleCalc
    /\ tables \in {[SeededTables EXCEPT !.reglas_precio = t] : t \in RuleTables}
    /\ rsv \in {[IdleResolve EXCEPT !.thicknessId = pt.thicknessId,
                                    !.height = pt.height, !.width = pt.width] :
                    pt \in ResolvePoints}
    /\ dsc = IdleDiscount
    /\ helper = IdleHelper
    /\ perr = IdleParse
    /\ nums = NoOrders
    /\ rls = SeededRows
    /\ home = IdleHome

ResolveNext == Resolve

ResolveSpec == ResolveInit /\ [][ResolveNext]_vars

(***************************************************************************)
(* The discount engine over any tier table                                 *)
(***************************************************************************)
\* applyDiscount(itemCount, subtotal) over the tiers of the repository
ApplyDiscount ==
    /\ dsc.pc = "idle"
    /\ \E r \in applyDiscount(tables.reglas_descuento, dsc.itemCount, dsc.subtotal) :
            dsc' = [dsc EXCEPT !.pc = "done", !.out = r]
    /\ UNCHANGED <<cache, db, call, inv, calc, tables, rsv, helper, perr, nums, rls, home>>

DiscountInit ==
    /\ cache = [k \in AllKeys |-> NoEntry]
    /\ db = 1
    /\ call = [p \in Procs |-> IdleCall]
    /\ inv = IdleInv
    /\ calc = IdleCalc
    /\ tables \in {[SeededTables EXCEPT !.reglas_descuento = T] : T \in TierTables}
    /\ rsv = IdleResolve
    /\ dsc \in {[IdleDiscount EXCEPT !.itemCount = in.itemCount,
                                     !.subtotal = in.subtotal] :
                    in \in DiscountInputs}
    /\ helper = IdleHelper
    /\ perr = IdleParse
    /\ nums = NoOrders
    /\ rls = SeededRows
    /\ home = IdleHome

DiscountNext == ApplyDiscount

DiscountSpec == DiscountInit /\ [][DiscountNext]_vars

(***************************************************************************)
(* Quotes over tables an admin has changed, and the orders placed for them *)
(***************************************************************************)
\* CONSTRAINT check_positive_amounts; a CHECK whose expression is NULL is
\* satisfied, and descuento, the one nullable column of the three, is kept
\* as the set of its values: {} for NULL
CheckPositiveAmounts(row) ==
    /\ row.subtotal >= 0
    /\ row.total >= 0
    /\ \A d \in row.descuento : d >= 0

\* CONSTRAINT check_total_calculation
CheckTotalCalculation(row) ==
    \A d \in row.descuento : row.total = row.subtotal - d

\* the amounts of the orders placed, in centavos
PedidoAmounts == {0, 15000, 135000, 150000}

PedidoRow(subtotal, descuento, total) ==
    [subtotal |-> subtotal, descuento |-> descuento, total |-> total]

\* INSERT INTO pedidos for the quote: the row is stored when its CHECK
\* constraints are satisfied; a rejected INSERT leaves the table as it was
InsertPedido(subtotal, descuento, total) ==
    /\ calc.pc = "done"
    /\ calc.quote.kind = "quote"
    /\ subtotal = calc.quote.lineSubtotal
    /\ Cardinality(tables.pedidos) < MaxPedidos
    /\ PedidoRow(subtotal, descuento, total) \notin tables.pedidos
    /\ CheckPositiveAmounts(PedidoRow(subtotal, descuento, total))
    /\ CheckTotalCalculation(PedidoRow(subtotal, descuento, total))
    /\ tables' = [tables EXCEPT !.pedidos = @ \cup {PedidoRow(subtotal, descuento, total)}]
    /\ UNCHANGED <<cache, db, call, inv, calc, rsv, dsc, helper, perr, nums, rls, home>>

QuoteInit ==
    /\ cache = [k \in AllKeys |-> NoEntry]
    /\ db = 1
    /\ call = [p \in Procs |-> IdleCall]
    /\ inv = IdleInv
    /\ calc \in {[IdleCalc EXCEPT !.params = r.params, !.quantity = r.quantity,
                                  !.orderItemCount = r.orderItemCount] :
                    r \in QuoteRequests}
    /\ tables \in QuoteTables
    /\ rsv = IdleResolve
    /\ dsc = IdleDiscount
    /\ helper = IdleHelper
    /\ perr = IdleParse
    /\ nums = NoOrders
    /\ rls = SeededRows
    /\ home = IdleHome

\* an order is placed for the quote, with a descuento, with descuento NULL
\* or with descuento left out, which is DEFAULT 0
QuoteNext ==
    \/ CalcHash
    \/ CalcQuote
    \/ \E s \in PedidoAmounts, d \in {{}} \cup {{a} : a \in PedidoAmounts},
          t \in PedidoAmounts :
            InsertPedido(s, d, t)

QuoteSpec == QuoteInit /\ [][QuoteNext]_vars

(***************************************************************************)
(* Requests for a quote around one mutation of the data store and the      *)
(* invalidations that follow it: r1 calls at any time, r2 only once the    *)
(* invalidations have completed                                            *)
(***************************************************************************)
\* the mutation's invalidateCache calls have all completed, every Redis call
\* of theirs having got through
InvalidationCompleted ==
    inv.swept /\ inv.healthy /\ inv.pc = "idle" /\ inv.todo = <<>>

\* a getCached call that starts after the invalidation has completed
GetCachedBeginAfter(p, def, key, ttl) ==
    /\ InvalidationCompleted
    /\ GetCachedBegin(p, def, key, ttl)

\* one mutation is left to the admin
FreshInit ==
    /\ cache = [k \in AllKeys |-> NoEntry]
    /\ db = MaxVersion - 1
    /\ call = [p \in Procs |-> IdleCall]
    /\ inv = IdleInv
    /\ calc = IdleCalc
    /\ tables = SeededTables
    /\ rsv = IdleResolve
    /\ dsc = IdleDiscount
    /\ helper = IdleHelper
    /\ perr = IdleParse
    /\ nums = NoOrders
    /\ rls = SeededRows
    /\ home = IdleHome

FreshNext ==
    \/ \E def \in {1, 2} :
            GetCachedBegin("r1", def, SampleQuoteKey, CACHE_TTL_CALCULATION)
    \/ \E def \in {1, 2} :
            GetCachedBeginAfter("r2", def, SampleQuoteKey, CACHE_TTL_CALCULATION)
    \/ \E p \in Procs : GetCachedStep(p)
    \/ InvalNext

FreshSpec == FreshInit /\ [][FreshNext]_vars

(***************************************************************************)
(* An error reaches the error handler                                      *)
(***************************************************************************)
\* a caller parses the error it caught
ParseErrorCall ==
    /\ perr.pc = "idle"
    /\ perr' = [perr EXCEPT !.pc = "done", !.op = "parseError",
                            !.parsed = parseError(perr.error)]
    /\ UNCHANGED <<cache, db, call, inv, calc, tables, rsv, dsc, helper, nums, rls, home>>

\* an API route answers with createErrorResponse(error, statusCode)
CreateErrorResponseCall(statusCode) ==
    /\ perr.pc = "idle"
    /\ perr' = [perr EXCEPT !.pc = "done", !.op = "createErrorResponse",
                            !.parsed = parseError(perr.error),
                            !.response = createErrorResponse(perr.error, statusCode)]
    /\ UNCHANGED <<cache, db, call, inv, calc, tables, rsv, dsc, helper, nums, rls, home>>

ErrorInit ==
    /\ cache = [k \in AllKeys |-> NoEntry]
    /\ db = 1
    /\ call = [p \in Procs |-> IdleCall]
    /\ inv = IdleInv
    /\ calc = IdleCalc
    /\ tables = SeededTables
    /\ rsv = IdleResolve
    /\ dsc = IdleDiscount
    /\ helper = IdleHelper
    /\ perr \in {[IdleParse EXCEPT !.error = e] : e \in ThrownValues}
    /\ nums = NoOrders
    /\ rls = SeededRows
    /\ home = IdleHome

ErrorSpec ==
    ErrorInit
        /\ [][\/ ParseErrorCall
              \/ \E statusCode \in {{}, {400}} : CreateErrorResponseCall(statusCode)]_vars

(***************************************************************************)
(* The resolver over the seeded rules and every selection of the seeded    *)
(* catalog                                                                 *)
(***************************************************************************)
CatalogInit ==
    /\ cache = [k \in AllKeys |-> NoEntry]
    /\ db = 1
    /\ call = [p \in Procs |-> IdleCall]
    /\ inv = IdleInv
    /\ calc = IdleCalc
    /\ tables = [SeededTables EXCEPT !.configuraciones = SeededConfiguraciones]
    /\ rsv \in {[IdleResolve EXCEPT !.thicknessId = g.id, !.height = h.valor,
                                    !.width = w.valor] :
                    g \in {o \in SeededConfiguraciones : o.tipo = "grosor"},
                    h \in {o \in SeededConfiguraciones : o.tipo = "altura"},
                    w \in {o \in SeededConfiguraciones : o.tipo = "anchura"}}
    /\ dsc = IdleDiscount
    /\ helper = IdleHelper
    /\ perr = IdleParse
    /\ nums = NoOrders
    /\ rls = SeededRows
    /\ home = IdleHome

CatalogSpec == CatalogInit /\ [][ResolveNext]_vars

(***************************************************************************)
(* The hash of requests whose identifiers hold its separators              *)
(***************************************************************************)
KeyInit ==
    /\ cache = [k \in AllKeys |-> NoEntry]
    /\ db = 1
    /\ call = [p \in Procs |-> IdleCall]
    /\ inv = IdleInv
    /\ calc \in {[IdleCalc EXCEPT !.params = p] : p \in SeparatorParams}
    /\ tables = SeededTables
    /\ rsv = IdleResolve
    /\ dsc = IdleDiscount
    /\ helper = IdleHelper
    /\ perr = IdleParse
    /\ nums = NoOrders
    /\ rls = SeededRows
    /\ home = IdleHome

KeySpec == KeyInit /\ [][CalcHash]_vars

(***************************************************************************)
(* Orders inserted without a numero_pedido                                 *)
(***************************************************************************)
\* INSERT INTO pedidos with numero_pedido NULL ({}) or '': the trigger
\* set_numero_pedido gives the row generate_numero_pedido(), which advances
\* pedidos_seq; the UNIQUE constraint then rejects a number that is stored
InsertOrder(numero_pedido) ==
    /\ numero_pedido = {} \/ numero_pedido = {<<>>}
    /\ Cardinality(nums.numeros) < MaxNumeros
    /\ nums.seq < MaxSeq
    /\ LET nuevo_numero == generate_numero_pedido(nums.day, nums.seq + 1)
       IN  nums' = [nums EXCEPT !.seq = @ + 1,
                                !.generated = nuevo_numero,
                                !.rejected = nuevo_numero \in nums.numeros,
                                !.numeros = @ \cup {nuevo_numero}]
    /\ UNCHANGED <<cache, db, call, inv, calc, tables, rsv, dsc, helper, perr, rls, home>>

\* n inserts that a CHECK or NOT NULL constraint rejects after the trigger
\* has run, or that are rolled back: the sequence keeps the values it gave
RejectedInserts(n) ==
    /\ nums.seq + n <= MaxSeq
    /\ nums' = [nums EXCEPT !.seq = @ + n, !.generated = <<>>, !.rejected = FALSE]
    /\ UNCHANGED <<cache, db, call, inv, calc, tables, rsv, dsc, helper, perr, rls, home>>

\* midnight passes
NextDay ==
    /\ nums.day + 1 \in Days
    /\ nums' = [nums EXCEPT !.day = @ + 1, !.generated = <<>>, !.rejected = FALSE]
    /\ UNCHANGED <<cache, db, call, inv, calc, tables, rsv, dsc, helper, perr, rls, home>>

NumeroSpec ==
    Init
        /\ [][\/ \E numero_pedido \in {{}, {<<>>}} : InsertOrder(numero_pedido)
              \/ \E n \in {999, 9000} : RejectedInserts(n)
              \/ NextDay]_vars

(***************************************************************************)
(* Sessions select from the tables while rows are activated and            *)
(* deactivated                                                             *)
(***************************************************************************)
\* SELECT * FROM table in the session of uid ("anon": auth.uid() is NULL)
Select(uid, table) ==
    /\ rls' = [rls EXCEPT !.session =
                    [pc |-> "done", uid |-> uid, table |-> table,
                     admin |-> is_admin(rls.rows, uid),
                     result |-> Permitted(rls.rows, uid, table, "SELECT")]]
    /\ UNCHANGED <<cache, db, call, inv, calc, tables, rsv, dsc, helper, perr, nums, home>>

\* UPDATE table SET activo (disponible) = flag for the row id, in the session
\* of uid: the row has to pass a policy for UPDATE, and a policy for SELECT as
\* well when the statement reads the row (a WHERE or RETURNING clause)
Update(uid, table, id, flag, reads) ==
    /\ table # "pedidos"
    /\ \E row \in Permitted(rls.rows, uid, table, "UPDATE") :
            /\ row.id = id
            /\ row.flag # flag
            /\ reads => row \in Permitted(rls.rows, uid, table, "SELECT")
            /\ rls' = [rls EXCEPT !.rows[table] = (@ \ {row}) \cup {[row EXCEPT !.flag = flag]},
                                  !.session = SeededRows.session]
    /\ UNCHANGED <<cache, db, call, inv, calc, tables, rsv, dsc, helper, perr, nums, home>>

RlsSpec ==
    Init
        /\ [][\/ \E uid \in {"anon", "u1", "a1", "a2"}, table \in DOMAIN SeededRows.rows :
                    Select(uid, table)
              \/ \E uid \in {"anon", "u1", "a1", "a2"}, table \in DOMAIN SeededRows.rows,
                    id \in {"x1", "a1", "a2"}, flag, reads \in BOOLEAN :
                    Update(uid, table, id, flag, reads)]_vars

(***************************************************************************)
(* The Home page (both definitions) over getAltares (both definitions)     *)
(***************************************************************************)
\* the Home of def is requested
HomeRequest(def) ==
    /\ home.pc = "idle"
    /\ call["r1"].pc = "idle"
    /\ home' = [IdleHome EXCEPT !.pc = "await", !.def = def]
    /\ UNCHANGED <<cache, db, call, inv, calc, tables, rsv, dsc, helper, perr, nums, rls>>

\* await getAltares(), the one that goes through getCached
GetAltares(def) ==
    /\ home.pc = "await"
    /\ GetCachedBegin("r1", def, ALTARES_ALL, CACHE_TTL_CATALOG)

\* await getAltares(), the one that queries the data store itself
GetAltaresDirect(ok) ==
    /\ home.pc = "await"
    /\ call["r1"].pc = "idle"
    /\ LET res == IF ok THEN ValueResult(FetcherValue(db)) ELSE FetchError
       IN  call' = [call EXCEPT !["r1"] =
                        [IdleCall EXCEPT !.pc = "done", !.fetched = <<res>>,
                                         !.result = res]]
    /\ UNCHANGED <<cache, db, inv, calc, tables, rsv, dsc, helper, perr, nums, rls, home>>

\* mutant: a page without the try and catch
HomeCatches_Never(def) == FALSE

\* the try and catch around await getAltares(): part_008 has it, part_009
\* has not
HomeCatches(def) == def = "part_008"

\* getAltares has settled: the page renders the list; on a rejection the
\* catch sets error to the message of the Error and altares to [], and
\* without the catch the rejection leaves Home
HomeRender ==
    /\ home.pc = "await"
    /\ call["r1"].pc = "done"
    /\ home' = IF call["r1"].result.kind = "value"
               THEN [home EXCEPT !.pc = "rendered",
                                 !.altares = {call["r1"].result.val}]
               ELSE IF HomeCatches(home.def)
               THEN [home EXCEPT !.pc = "rendered", !.rejected = TRUE,
                                 !.altares = {},
                                 !.error = "Failed to fetch altares"]
               ELSE [home EXCEPT !.pc = "failed", !.rejected = TRUE]
    /\ UNCHANGED <<cache, db, call, inv, calc, tables, rsv, dsc, helper, perr, nums, rls>>

\* the response is sent
HomeReturn ==
    /\ home.pc \in {"rendered", "failed"}
    /\ home' = IdleHome
    /\ call' = [call EXCEPT !["r1"] = IdleCall]
    /\ UNCHANGED <<cache, db, inv, calc, tables, rsv, dsc, helper, perr, nums, rls>>

PageSpec ==
    Init
        /\ [][\/ \E def \in {"part_008", "part_009"} : HomeRequest(def)
              \/ \E def \in {1, 2} : GetAltares(def)
              \/ \E ok \in BOOLEAN : GetAltaresDirect(ok)
              \/ \E ok \in BOOLEAN : GetCachedGet("r1", ok)
              \/ \E ok \in BOOLEAN : GetCachedFetch("r1", ok)
              \/ \E ok \in BOOLEAN : GetCachedSetex("r1", ok)
              \/ \E ok \in BOOLEAN : GetCachedFallback("r1", ok)
              \/ HomeRender
              \/ HomeReturn]_vars

(***************************************************************************)
(* Claims on getCached                                                     *)
(***************************************************************************)
\* the getCached calls that have settled
Settled(p) == call[p].pc = "done"

\* C1: when redis.get fails, getCached calls the fetcher once, writes nothing
\* and settles exactly as the fetcher does (its value, or its rejection); so
\* does a call on a healthy, empty cache.  No call settles with a cache error.
C1_FailOpen ==
    \A p \in Procs :
        Settled(p) =>
            /\ call[p].result.err # "cache"
            /\ call[p].getOut = "err" =>
                    /\ Len(call[p].fetched) = 1
                    /\ call[p].setOut = "none"
                    /\ call[p].result = call[p].fetched[1]
            /\ (call[p].getOut = "miss" /\ call[p].setOut = "ok") =>
                    /\ Len(call[p].fetched) = 1
                    /\ call[p].result = call[p].fetched[1]

\* C1 happens: redis.get failed and the call returned the row the fetcher read
C1_Witness ==
    \E p \in Procs :
        /\ Settled(p)
        /\ call[p].getOut = "err"
        /\ call[p].result = ValueResult(FetcherValue(db))
        /\ call[p].result.val # NullVal

\* C2: after a miss and a successful fetch, a failing redis.setex leaves the
\* call returning the value that fetch produced, in either definition
C2_SetexFailureReturnsData ==
    \A p \in Procs :
        (/\ Settled(p)
         /\ call[p].getOut = "miss"
         /\ call[p].setOut = "err"
         /\ call[p].fetched[1].kind = "value")
            => call[p].result = call[p].fetched[1]

\* C5: after a miss, a failing fetch makes getCached fail with that error
\* without a second call of the fetcher
C5_FetchFailureNotRetried ==
    \A p \in Procs :
        (/\ Settled(p)
         /\ call[p].getOut = "miss"
         /\ call[p].fetched[1] = FetchError)
            => /\ Len(call[p].fetched) = 1
               /\ call[p].result = FetchError

\* C7: a call whose redis.get returned a value other than null returns that
\* value, and has called neither the fetcher nor redis.setex
C7_HitIsTerminal ==
    \A p \in Procs :
        (call[p].getOut = "hit") =>
            /\ call[p].cached # NullVal
            /\ Settled(p)
            /\ call[p].result = ValueResult(call[p].cached)
            /\ call[p].fetched = <<>>
            /\ call[p].setOut = "none"

\* C7 happens: a hit on a value that differs from what the store now holds
C7_Witness ==
    \E p \in Procs :
        /\ Settled(p)
        /\ call[p].getOut = "hit"
        /\ call[p].cached # FetcherValue(db)

\* C8: with the store unchanging and reachable, every settled call has the
\* store's value, whatever the cache calls did, and every call that has begun
\* settles
C8_SameValueAndCompletion ==
    /\ [](\A p \in Procs :
            Settled(p) => call[p].result = ValueResult(FetcherValue(db)))
    /\ \A p \in Procs : (call[p].pc = "get") ~> Settled(p)

\* C8 happens: two calls for the key have settled, the fetcher ran in both,
\* one of them with its cache calls failing
C8_Witness ==
    /\ \A p \in Procs : Settled(p) /\ Len(call[p].fetched) >= 1
    /\ \E p \in Procs : call[p].getOut = "err"
    /\ \E p \in Procs : call[p].setOut = "err"
    /\ call["r1"].result = call["r2"].result
    /\ call["r1"].result.val # NullVal

\* C9: when invalidateCache has deleted the keys it read, no key matching its
\* pattern is left: the del acts on the cache as it is, not on an older view
C9_NoStaleView ==
    [][(inv.pc = "del" /\ inv'.pc = "done" /\ cache' # cache) =>
            \A k \in AllKeys : GlobMatch(inv.pattern, k) => ~cache'[k].present]_vars

\* C10: every entry of the cache has a positive TTL that has not elapsed
C10_EntriesExpire ==
    \A k \in AllKeys :
        cache[k].present => cache[k].ttl > 0 /\ cache[k].age < cache[k].ttl

\* C10 happens: getCached has cached, with the quote TTL, a value read before
\* the store changed
C10_Witness ==
    \E p \in Procs :
        /\ Settled(p)
        /\ call[p].setOut = "ok"
        /\ cache[call[p].key].present
        /\ cache[call[p].key].ttl = CACHE_TTL_CALCULATION
        /\ cache[call[p].key].val = call[p].data
        /\ call[p].data # FetcherValue(db)

\* C20: a settled getCached call in which the fetcher was called and never
\* failed has called it exactly once, whatever redis.get and redis.setex
\* did, in either definition
C20_FetcherOnce ==
    \A p \in Procs :
        (/\ Settled(p)
         /\ call[p].fetched # <<>>
         /\ \A i \in DOMAIN call[p].fetched : call[p].fetched[i].kind = "value")
            => Len(call[p].fetched) = 1

\* C19: configuration, catalog, extra-item and discount data have the long
\* TTL, and an entry cached with the TTL of calculation results has the
\* medium TTL, which is shorter than the TTL of the rule data
C19_TtlClasses ==
    /\ CACHE_TTL_CONFIG = CACHE_TTL_LONG
    /\ CACHE_TTL_CATALOG = CACHE_TTL_LONG
    /\ CACHE_TTL_EXTRAS = CACHE_TTL_LONG
    /\ CACHE_TTL_DISCOUNTS = CACHE_TTL_LONG
    /\ \A k \in AllKeys :
            (cache[k].present /\ cache[k].ttl = CACHE_TTL_CALCULATION) =>
                /\ cache[k].ttl = CACHE_TTL_MEDIUM
                /\ cache[k].ttl < CACHE_TTL_CONFIG
                /\ cache[k].ttl < CACHE_TTL_DISCOUNTS

(***************************************************************************)
(* Claims on invalidation                                                  *)
(***************************************************************************)
\* the namespaces an admin mutation has to clear
RuleNamespaces ==
    {k \in AllKeys :
        \/ k = REGLAS_PRECIO
        \/ k = REGLAS_DESCUENTO
        \/ GlobMatch(ALL_EXTRAS, k)
        \/ GlobMatch(PRECIO_CALCULATION(<<"*">>), k)}

\* C6: once invalidateCache has run for every pattern of CACHE_KEYS.PATTERNS
\* with every Redis call succeeding, no key of the pricing-rule, discount,
\* extra-item and quote namespaces is in the cache
C6_InvalidationCoverage ==
    (inv.swept /\ inv.healthy) => \A k \in RuleNamespaces : ~cache[k].present

\* C11: every invalidateCache, setCache and deleteCache call that has ended
\* has resolved, whether its Redis calls (keys, del, setex) got through or
\* failed; none rejects, so the caller goes on as after a successful call
C11_HelpersAbsorbErrors ==
    /\ helper.out # "rejected"
    /\ inv.out # "rejected"
    /\ helper.pc = "done" => helper.out = "resolved"
    /\ inv.pc = "done" => inv.out = "resolved"

\* C11 happens: a deleteCache call whose del failed and an invalidateCache
\* call whose del failed have both ended, the keys still cached
C11_Witness ==
    /\ helper.pc = "done"
    /\ helper.op = "deleteCache"
    /\ helper.threw
    /\ helper.out = "resolved"
    /\ inv.pc = "done"
    /\ ~inv.healthy
    /\ inv.out = "resolved"
    /\ inv.keys # {}
    /\ \A k \in inv.keys : cache[k].present

(***************************************************************************)
(* Claims on the quote key                                                 *)
(***************************************************************************)
QuoteKeyOf(req) == PRECIO_CALCULATION(generatePriceCalcHash(req.params))

\* C3: every request that derives the key of the quoted request has the same
\* quote, field by field, whatever its quantity and order item count
C3_SameKeySameQuote ==
    calc.pc = "done" =>
        \A r \in CalcRequests :
            QuoteKeyOf(r) = calc.key => computeQuote(tables, r) = calc.quote

\* occurrences of e in the list
Occurrences(list, e) == Cardinality({i \in 1..Len(list) : list[i] = e})

\* the same multiset of (itemId, cantidad) pairs
IsPermutation(a, b) ==
    /\ Len(a) = Len(b)
    /\ \A e \in ExtraPairs : Occurrences(a, e) = Occurrences(b, e)

\* C4: every permutation of the request's extras list, the other parameters
\* equal, has the request's hash
C4_PermutationsHashAlike ==
    calc.pc = "hashed" =>
        \A x \in ExtrasLists :
            IsPermutation(x, calc.params.extras) =>
                generatePriceCalcHash([calc.params EXCEPT !.extras = x]) = calc.hash

\* the same multiset of extras
SameExtras(a, b) ==
    /\ Len(a) = Len(b)
    /\ \A i \in DOMAIN a : Occurrences(a, a[i]) = Occurrences(b, a[i])

\* C26: parameters with the hash of the request have its grosorId, alturaId,
\* anchuraId and pintado and its multiset of extras
C26_HashInjective ==
    calc.pc = "hashed" =>
        \A p \in SeparatorParams :
            generatePriceCalcHash(p) = calc.hash =>
                /\ p.grosorId = calc.params.grosorId
                /\ p.alturaId = calc.params.alturaId
                /\ p.anchuraId = calc.params.anchuraId
                /\ p.pintado = calc.params.pintado
                /\ SameExtras(p.extras, calc.params.extras)

(***************************************************************************)
(* Claims on the resolver                                                  *)
(***************************************************************************)
\* the rows of the table whose bands, bounds included, hold the point of the
\* resolve call, and that are active and of its thickness
Covering ==
    {r \in {tables.reglas_precio[i] : i \in DOMAIN tables.reglas_precio} :
        /\ r.activo
        /\ r.grosorId = rsv.thicknessId
        /\ rsv.height \in r.altura_min..r.altura_max
        /\ rsv.width \in r.anchura_min..r.anchura_max}

\* C12: resolve returns the one covering rule when there is exactly one,
\* fails (NoRuleMatchedError) when there is none, and never returns a row
\* that is inactive, of another thickness or not in the table; over the
\* seeded rules 3mm / 55 / 25 fails
C12_RangeCoverage ==
    rsv.pc = "done" =>
        /\ Cardinality(Covering) = 1 => rsv.out = Covering
        /\ Covering = {} => rsv.out = {}
        /\ \A r \in rsv.out :
                /\ r.activo
                /\ r.grosorId = rsv.thicknessId
                /\ \E i \in DOMAIN tables.reglas_precio : tables.reglas_precio[i] = r
        /\ (/\ tables.reglas_precio = ReglasPrecio
            /\ rsv.thicknessId = <<"g", "3">>
            /\ rsv.height = 55
            /\ rsv.width = 25) => rsv.out = {}

\* C12 happens: the point is on the upper height bound of the one covering
\* rule, which resolve returned, next to an inactive row over the same point
C12_Witness ==
    /\ rsv.pc = "done"
    /\ Cardinality(Covering) = 1
    /\ rsv.out = Covering
    /\ \A r \in rsv.out : r.altura_max = rsv.height
    /\ \E i \in DOMAIN tables.reglas_precio :
            /\ ~tables.reglas_precio[i].activo
            /\ rsv.height \in tables.reglas_precio[i].altura_min
                                ..tables.reglas_precio[i].altura_max

\* (heightMax - heightMin) x (widthMax - widthMin)
Area(r) == (r.altura_max - r.altura_min) * (r.anchura_max - r.anchura_min)

\* the table with its rows i and j swapped
Swapped(t, i, j) ==
    [k \in DOMAIN t |-> IF k = i THEN t[j] ELSE IF k = j THEN t[i] ELSE t[k]]

\* the orders the rows of table t are supplied in: all of them for a table
\* of at most MaxRules rows, those one swap away for a longer one
Reorderings(t) ==
    IF Len(t) <= MaxRules
    THEN {[k \in DOMAIN t |-> t[f[k]]] : f \in Permutations(DOMAIN t)}
    ELSE {Swapped(t, i, j) : i, j \in DOMAIN t}

\* C13: with more than one covering rule resolve returns the covering rule
\* of the smallest area, the one of the smallest identifier among those of
\* equal area, and returns it for every order of the table's rows
C13_TieBreak ==
    (rsv.pc = "done" /\ Cardinality(Covering) > 1) =>
        /\ \E r \in Covering :
                /\ rsv.out = {r}
                /\ \A q \in Covering \ {r} :
                        \/ Area(r) < Area(q)
                        \/ Area(r) = Area(q) /\ LocaleCompare(r.id, q.id) < 0
        /\ \A t \in Reorderings(tables.reglas_precio) :
                resolve(t, rsv.thicknessId, rsv.height, rsv.width) = rsv.out

\* C13 happens: two covering rules of equal area, and resolve returned the
\* one stored second
C13_Witness ==
    /\ rsv.pc = "done"
    /\ Len(tables.reglas_precio) = 2
    /\ Cardinality(Covering) = 2
    /\ Area(tables.reglas_precio[1]) = Area(tables.reglas_precio[2])
    /\ rsv.out = {tables.reglas_precio[2]}

ActiveDistinctTiers ==
    \A t, u \in tables.reglas_descuento :
        /\ t.activo
        /\ t.cantidad_minima = u.cantidad_minima => t = u

\* C15: over a table of active tiers, one for a threshold, the percentage
\* applied to an item count is not below the percentage applied to any
\* smaller item count
C15_DiscountMonotone ==
    (dsc.pc = "done" /\ ActiveDistinctTiers) =>
        \A in \in DiscountInputs :
            in.itemCount < dsc.itemCount =>
                \A r \in applyDiscount(tables.reglas_descuento, in.itemCount,
                                       dsc.subtotal) :
                    r.tier.porcentaje_descuento <= dsc.out.tier.porcentaje_descuento

\* the quote's total is its subtotal less its discount, the discount from 0
\* to the subtotal
QuoteTotalsHold ==
    (calc.pc = "done" /\ calc.quote.kind = "quote") =>
        /\ calc.quote.total = calc.quote.lineSubtotal - calc.quote.discountAmount
        /\ 0 <= calc.quote.discountAmount
        /\ calc.quote.discountAmount <= calc.quote.lineSubtotal
        /\ calc.quote.total >= 0
        /\ (/\ tables.reglas_descuento = ReglasDescuento
            /\ calc.orderItemCount = 6
            /\ calc.quote.lineSubtotal = 150000)
                => calc.quote.discountAmount = 15000 /\ calc.quote.total = 135000

\* C16: every quote and every stored order has total = subtotal - discount
\* with 0 <= discount <= subtotal and total >= 0; 6 items and a subtotal of
\* 1500.00 over the seeded tiers give a discount of 150.00 and a total of
\* 1350.00
C16_TotalInvariant ==
    /\ QuoteTotalsHold
    /\ \A o \in tables.pedidos :
            \E d \in o.descuento :
                /\ o.total = o.subtotal - d
                /\ 0 <= d
                /\ d <= o.subtotal
                /\ o.total >= 0

\* the seeded options, rules and tiers
SeededPricing ==
    /\ tables.configuraciones = Configuraciones
    /\ tables.reglas_precio = ReglasPrecio
    /\ tables.reglas_descuento = ReglasDescuento

\* C17: the unit price of a quote is the matched rule's precio_pintado when
\* the request is painted and its precio_base otherwise; over the seeded
\* tables 3mm / 40 / 25, quantity 1, no extras, one item in the order gives
\* 250.00 as unit price and total, and 350.00 as unit price when painted
C17_UnitPrice ==
    calc.pc = "done" =>
        /\ calc.quote.kind = "quote" =>
                \E i \in DOMAIN tables.reglas_precio :
                    /\ tables.reglas_precio[i].id = calc.quote.matchedRuleId
                    /\ calc.quote.unitPrice =
                            IF calc.params.pintado
                            THEN tables.reglas_precio[i].precio_pintado
                            ELSE tables.reglas_precio[i].precio_base
        /\ (/\ SeededPricing
            /\ [calc.params EXCEPT !.pintado = FALSE] = SampleParams
            /\ calc.quantity = 1
            /\ calc.orderItemCount = 1) =>
                /\ calc.quote.kind = "quote"
                /\ calc.quote.unitPrice = IF calc.params.pintado THEN 35000 ELSE 25000
                /\ ~calc.params.pintado => calc.quote.total = 25000

\* C17 happens: the painted request over the seeded tables
C17_Witness ==
    /\ calc.pc = "done"
    /\ SeededPricing
    /\ calc.params = [SampleParams EXCEPT !.pintado = TRUE]
    /\ calc.quantity = 1
    /\ calc.orderItemCount = 1
    /\ calc.quote.unitPrice = 35000

\* the options the request names are available
OptionsAvailable ==
    \A id \in {calc.params.grosorId, calc.params.alturaId, calc.params.anchuraId} :
        \E o \in tables.configuraciones : o.id = id /\ o.disponible

\* an active rule of the request's thickness covers its height and width
RuleCovers ==
    \E i \in DOMAIN tables.reglas_precio, h, w \in tables.configuraciones :
        LET r == tables.reglas_precio[i]
        IN  /\ h.id = calc.params.alturaId
            /\ w.id = calc.params.anchuraId
            /\ r.activo
            /\ r.grosorId = calc.params.grosorId
            /\ h.valor \in r.altura_min..r.altura_max
            /\ w.valor \in r.anchura_min..r.anchura_max

\* C18: computeQuote gives a quote exactly when quantity >= 1, the options
\* are available and a rule covers the request; InvalidConfigurationError
\* for a quantity below 1 or an unavailable option, NoRuleMatchedError when
\* no rule covers; a quote has a rule and a positive unit price
C18_QuoteOnlyWhenValid ==
    calc.pc = "done" =>
        /\ calc.quote.kind = "quote"
                <=> (calc.quantity >= 1 /\ OptionsAvailable /\ RuleCovers)
        /\ (calc.quantity < 1 \/ ~OptionsAvailable)
                => calc.quote = QuoteError("InvalidConfigurationError")
        /\ (calc.quantity >= 1 /\ OptionsAvailable /\ ~RuleCovers)
                => calc.quote = QuoteError("NoRuleMatchedError")
        /\ calc.quote.kind = "quote"
                => calc.quote.unitPrice > 0 /\ calc.quote.matchedRuleId # <<>>

\* C18 happens: a request for one altar whose height option was withdrawn
\* is rejected, and so is one that no active rule covers
C18_Witness ==
    /\ calc.pc = "done"
    /\ calc.quantity >= 1
    /\ \/ ~OptionsAvailable /\ calc.quote.err = "InvalidConfigurationError"
       \/ OptionsAvailable /\ ~RuleCovers /\ calc.quote.err = "NoRuleMatchedError"
    /\ calc.quote.total = 0

(***************************************************************************)
(* Claims on freshness                                                     *)
(***************************************************************************)
\* C21: a getCached call that started after the invalidateCache calls that
\* followed the mutation had completed returns the value of the mutated
\* store, whatever the calls in flight during the mutation did
C21_FreshAfterInvalidation ==
    (Settled("r2") /\ call["r2"].result.kind = "value") =>
        call["r2"].result = ValueResult(FetcherValue(db))

\* C22: while an entry that a getCached call wrote is in the cache (its TTL
\* not elapsed, nothing having deleted it), a getCached call for the key
\* whose redis.get gets through returns the entry's value and does not call
\* the fetcher, whatever value the fetcher had returned, null included
C22_CachedValueServed ==
    [][\A p \in Procs :
        (/\ call[p].pc = "get"
         /\ call'[p].pc # "get"
         /\ call'[p].getOut # "err"
         /\ cache[call[p].key].present)
            => /\ call'[p].pc = "done"
               /\ call'[p].result = ValueResult(cache[call[p].key].val)
               /\ call'[p].fetched = <<>>]_vars

\* the keys getAltares, getAltaresByType, getAltarById and getAltarBySlug
\* write their results under
AltarKeys ==
    {k \in AllKeys :
        \/ k = ALTARES_ALL
        \/ GlobMatch(ALTARES_BY_TYPE(<<"*">>), k)
        \/ GlobMatch(ALTAR_DETAIL(<<"*">>), k)
        \/ GlobMatch(ALTAR_BY_SLUG(<<"*">>), k)}

\* C23: when invalidateCache(CACHE_KEYS.PATTERNS.ALL_ALTARES) has ended with
\* its Redis calls having got through, no entry of the altar queries is in
\* the cache
C23_AllAltaresCleared ==
    (inv.pc = "done" /\ inv.pattern = ALL_ALTARES /\ inv.healthy) =>
        \A k \in AltarKeys : ~cache[k].present

(***************************************************************************)
(* Claims on the error handler                                             *)
(***************************************************************************)
\* C24: the AppError parseError returns has the code and the statusCode of
\* the error it was given, for an Error instance as for a plain object, and
\* the response of createErrorResponse carries that code
C24_TagKept ==
    perr.pc = "done" =>
        /\ \A c \in perr.error.code :
                /\ perr.parsed.code = c
                /\ perr.op = "createErrorResponse" => perr.response.code = c
        /\ \A s \in perr.error.statusCode : perr.parsed.statusCode = s

(***************************************************************************)
(* Claims on the seeded catalog                                            *)
(***************************************************************************)
\* the rules of the table whose band holds the point resolve was asked for
RulesHolding ==
    {i \in DOMAIN tables.reglas_precio :
        Matches(tables.reglas_precio[i], rsv.thicknessId, rsv.height, rsv.width)}

\* C25: a selection of seeded options lies in the band of exactly one seeded
\* active rule, and resolve returns that rule
C25_SeededCoverage ==
    /\ Cardinality(RulesHolding) = 1
    /\ rsv.pc = "done" =>
            rsv.out = {tables.reglas_precio[i] : i \in RulesHolding}

\* C25 happens: resolve has answered for the greatest seeded selection, 9 mm
\* by 80 cm by 50 cm, and for one on the bounds of a band
C25_Witness ==
    /\ rsv.pc = "done"
    /\ rsv.out # {}
    /\ \/ rsv.thicknessId = <<"g", "9">> /\ rsv.height = 80 /\ rsv.width = 50
       \/ rsv.height = 50 /\ rsv.width = 35

(***************************************************************************)
(* Claims on the order numbers                                             *)
(***************************************************************************)
\* C27: an order inserted with an empty numero_pedido gets a number that no
\* stored order has, so the UNIQUE constraint does not reject the insert
C27_NumerosDistinct ==
    nums.generated # <<>> => ~nums.rejected

(***************************************************************************)
(* Claims on row level security                                            *)
(***************************************************************************)
\* C28: a session for which is_admin() is false gets from a SELECT only rows
\* with activo = true (disponible = true), and no row of pedidos or
\* admin_usuarios
C28_PublicReadsActiveOnly ==
    (rls.session.pc = "done" /\ ~rls.session.admin) =>
        /\ \A row \in rls.session.result : row.flag
        /\ rls.session.table \in {"pedidos", "admin_usuarios"} =>
                rls.session.result = {}

\* C28 happens: an admin who was deactivated selects, and gets none of the
\* orders and none of the rows that were deactivated
C28_Witness ==
    /\ rls.session.pc = "done"
    /\ rls.session.uid = "a1"
    /\ ~rls.session.admin
    /\ rls.session.result = {}
    /\ rls.rows[rls.session.table] # {}
    /\ \/ rls.session.table = "pedidos"
       \/ rls.session.table = "altares"

C30_ExtrasUnchanged ==
    [][(calc.pc = "idle" /\ calc'.pc = "hashed") =>
            calc'.params.extras = calc.params.extras]_vars

====
